---- MODULE Spec2Model ----
(***************************************************************************)
(* Model of drug_named_entity_recognition/drugs_finder.py: the dictionary  *)
(* store (variant/canonical maps, n-gram index, fuzzy index), its          *)
(* mutating operations, the fuzzy disambiguation rule and the two-pass     *)
(* token scan of find_drugs.                                               *)
(*                                                                         *)
(* Python strings are sequences of one-character strings so that lower(),  *)
(* concatenation and slicing are computed, not assumed.                    *)
(***************************************************************************)
EXTENDS Integers, Sequences, FiniteSets, TLC

VARIABLES
    d_canonical_to_data,          \* d["drug_canonical_to_data"]: the loaded dataset's inner dicts
    drug_variant_to_canonical,    \* dict: variant -> list of canonical ids
    drug_canonical_to_data,       \* dict: canonical id -> attribute dict
    drug_variant_to_variant_data, \* dict: variant -> override dict
    ngram_to_variant,             \* dict: 3-gram -> list of variants
    variant_to_ngrams,            \* dict: variant -> set of 3-grams
    drug_names_fuzzyset,          \* FuzzySet over the drug variants
    lastOp,                       \* the last call made and how it ended
    preAdd,                       \* the three maps as they were before the last add
    nOps,                         \* number of mutating calls made so far
    found,                        \* the last find_drugs call and what it returned
    fuzzy,                        \* the last direct get_fuzzy_match call and what it returned
    dbid_to_mol_lookup,           \* dict: drugbank id -> structure block, built lazily
    caller,                       \* per thread: where its find_drugs call stands, and its locals
    omop_cache,                   \* dict: lower-cased drug name -> OMOP id
    cache_file,                   \* CACHE_FILE on disk
    engine,                       \* the process: "up", "writing", "down" or "aborted"
    pending,                      \* what pkl.dump has still to write
    file_before,                  \* CACHE_FILE before the last write began
    file_after                    \* CACHE_FILE as the last write is to leave it

storeVars == <<d_canonical_to_data, drug_variant_to_canonical, drug_canonical_to_data,
               drug_variant_to_variant_data, ngram_to_variant, variant_to_ngrams,
               drug_names_fuzzyset>>

histVars == <<lastOp, preAdd, nOps>>
callVars == <<found, fuzzy>>
concVars == <<dbid_to_mol_lookup, caller>>
cacheVars == <<omop_cache, cache_file, engine, pending, file_before, file_after>>
vars == <<storeVars, histVars, callVars, concVars, cacheVars>>

-----------------------------------------------------------------------------
(* Bounds *)

MaxOps == 3
MaxTokens == 3
MaxOpsBeforeFind == 1
MaxOpsBeforeFuzzy == 2

-----------------------------------------------------------------------------
(* Strings *)

s_nacl  == <<"n","a","c","l">>
s_Nacl  == <<"N","a","c","l">>
s_nacx  == <<"n","a","c","x">>
s_nacy  == <<"n","a","c","y">>
s_d     == <<"d">>
s_of    == <<"o","f">>
s_snacky == <<"s","n","a","c","k","y">>
s_nacxy == <<"n","a","c","x","y">>
s_space == <<" ">>
s_nacx_d == s_nacx \o s_space \o s_d
s_d_nacx == s_d \o s_space \o s_nacx
s_db1   == <<"d","b","1">>
s_DB1   == <<"D","B","1">>
s_db2   == <<"d","b","2">>
id_DB01 == <<"D","B","0","1">>
id_DB02 == <<"D","B","0","2">>
s_new   == <<"n","e","w">>
s_New   == <<"N","e","w">>

\* str.lower() on one character
LowerChar(c) ==
    CASE c = "N" -> "n"
      [] c = "D" -> "d"
      [] c = "B" -> "b"
      [] OTHER   -> c

\* str.lower()
Lower(s) == [i \in 1..Len(s) |-> LowerChar(s[i])]

EXCLUDE_WORDS == {
    <<"m","l">>, <<"m","g">>, <<"d","l">>, <<"c","c">>, <<"m","c","g">>, <<"g","m">>,
    s_nacl, <<"t","b","i","s">>, <<"t","b","i">>, <<"p","t","s","d">>, <<"p","p","d">>,
    <<"r","e","l","a","x","i","n","g">>, <<"b","p">>, <<"c","o","p","d">> }

\* util.stopwords
stopwords == { s_of }

get_ngrams(text) == { SubSeq(text, i, i + 2) : i \in 1..(Len(text) - 2) }

-----------------------------------------------------------------------------
(* Python dict helpers *)

EmptyDict == [k \in {} |-> k]

\* dict with key k removed
DictDel(f, k) == [x \in DOMAIN f \ {k} |-> f[x]]

\* dict with f[k] = v assigned (insert or overwrite)
DictSet(f, k, v) == [x \in DOMAIN f \cup {k} |-> IF x = k THEN v ELSE f[x]]

\* a | b : b's keys win
DictMerge(a, b) == [x \in DOMAIN a \cup DOMAIN b |-> IF x \in DOMAIN b THEN b[x] ELSE a[x]]

\* list.remove(x): drops the first occurrence
RECURSIVE ListRemove(_, _)
ListRemove(l, x) ==
    IF l = <<>> THEN <<>>
    ELSE IF Head(l) = x THEN Tail(l)
    ELSE <<Head(l)>> \o ListRemove(Tail(l), x)

InList(l, x) == \E i \in 1..Len(l) : l[i] = x

-----------------------------------------------------------------------------
(* The dataset d unpickled from drug_ner_dictionary.pkl.bz2 *)

\* d["drug_variant_to_canonical"], in dict order
d_variant_to_canonical == <<
    <<s_nacx_d, <<s_db1, s_db2>>>>,
    <<s_d_nacx, <<s_db2>>>> >>

\* d["drug_canonical_to_data"] as unpickled (no derived "synonyms" key yet)
d_canonical_to_data_pickled ==
    (s_db1 :> [name |-> "Sodium X", drugbank_id |-> id_DB01]) @@
    (s_db2 :> [name |-> "Compound D", drugbank_id |-> id_DB02])

\* d["drug_variant_to_variant_data"]
d_variant_to_variant_data == (s_d_nacx :> [is_brand |-> TRUE])

DatasetVariants == { d_variant_to_canonical[i][1] : i \in 1..Len(d_variant_to_canonical) }

\* d["drug_variant_to_canonical"] as a dict
DatasetV2C == [v \in DatasetVariants |->
    d_variant_to_canonical[CHOOSE i \in 1..Len(d_variant_to_canonical) :
                               d_variant_to_canonical[i][1] = v][2] ]

-----------------------------------------------------------------------------
(* The store as one value, for the operators below *)

Store == [
    d_canonical_to_data          |-> d_canonical_to_data,
    drug_variant_to_canonical    |-> drug_variant_to_canonical,
    drug_canonical_to_data       |-> drug_canonical_to_data,
    drug_variant_to_variant_data |-> drug_variant_to_variant_data,
    ngram_to_variant             |-> ngram_to_variant,
    variant_to_ngrams            |-> variant_to_ngrams,
    drug_names_fuzzyset          |-> drug_names_fuzzyset ]

\* FuzzySet(): exact_set holds the lower-cased members; add() of a member is a no-op
FuzzySetAdd(fs, w) == [fs EXCEPT !.words = @ \cup {Lower(w)}]

\* lines 176-179 / 145-148: append the variant to the bucket of each of its n-grams
IndexNgrams(n2v, variant) ==
    LET ngrams == get_ngrams(variant)
    IN [g \in DOMAIN n2v \cup ngrams |->
           IF g \in ngrams
           THEN (IF g \in DOMAIN n2v THEN n2v[g] ELSE <<>>) \o <<variant>>
           ELSE n2v[g]]

\* one iteration of the loop body at lines 137-140 on the dict object of `canonical`
AppendSynonym(c2d, canonical, variant) ==
    IF canonical \in DOMAIN c2d
    THEN LET old == c2d[canonical]
             syn == IF "synonyms" \in DOMAIN old THEN old.synonyms ELSE <<>>
         IN [c2d EXCEPT ![canonical] = DictSet(old, "synonyms", syn \o <<variant>>)]
    ELSE c2d

\* lines 135-140: for variant, canonicals in items: for canonical in canonicals: ...
RECURSIVE SynonymsOfCanonicals(_, _, _)
SynonymsOfCanonicals(c2d, variant, canonicals) ==
    IF canonicals = <<>> THEN c2d
    ELSE SynonymsOfCanonicals(AppendSynonym(c2d, Head(canonicals), variant),
                              variant, Tail(canonicals))

RECURSIVE DeriveSynonyms(_, _)
DeriveSynonyms(c2d, items) ==
    IF items = <<>> THEN c2d
    ELSE DeriveSynonyms(SynonymsOfCanonicals(c2d, Head(items)[1], Head(items)[2]),
                        Tail(items))

RECURSIVE BuildNgramIndex(_, _)
BuildNgramIndex(n2v, items) ==
    IF items = <<>> THEN n2v
    ELSE BuildNgramIndex(IndexNgrams(n2v, Head(items)[1]), Tail(items))

\* reset_drugs_data.  The dicts are cleared and refilled with update(), which copies
\* the references: drug_canonical_to_data[c] and d["drug_canonical_to_data"][c] are
\* the same dict object, so the appends of lines 138-140 land in d as well.
reset_drugs_data(S) ==
    LET shared == DeriveSynonyms(S.d_canonical_to_data, d_variant_to_canonical)
    IN [ d_canonical_to_data          |-> shared,
         drug_variant_to_canonical    |-> DatasetV2C,
         drug_canonical_to_data       |-> shared,
         drug_variant_to_variant_data |-> d_variant_to_variant_data,
         ngram_to_variant             |-> BuildNgramIndex(EmptyDict, d_variant_to_canonical),
         variant_to_ngrams            |-> [v \in DatasetVariants |-> get_ngrams(v)],
         drug_names_fuzzyset          |-> [built |-> TRUE, words |-> { Lower(v) : v \in DatasetVariants }] ]

\* optional_variant_data: None or a dict
NoneData == [isNone |-> TRUE, dict |-> EmptyDict]
SomeData(dict) == [isNone |-> FALSE, dict |-> dict]

add_custom_drug_synonym(S, drug_variant_arg, canonical_name_arg, optional_variant_data) ==
    LET drug_variant == Lower(drug_variant_arg)
        canonical_name == Lower(canonical_name_arg)
    IN [S EXCEPT
          !.drug_variant_to_canonical = DictSet(@, drug_variant, <<canonical_name>>),
          !.drug_variant_to_variant_data =
              IF ~optional_variant_data.isNone /\ Cardinality(DOMAIN optional_variant_data.dict) > 0
              THEN DictSet(@, drug_variant, optional_variant_data.dict)
              ELSE @,
          !.variant_to_ngrams = DictSet(@, drug_variant, get_ngrams(drug_variant)),
          !.ngram_to_variant = IndexNgrams(@, drug_variant),
          !.drug_names_fuzzyset = IF @.built THEN FuzzySetAdd(@, drug_variant) ELSE @ ]

add_custom_new_drug(S, drug_name_arg, drug_data) ==
    LET drug_name == Lower(drug_name_arg)
    IN add_custom_drug_synonym(
           [S EXCEPT !.drug_canonical_to_data = DictSet(@, drug_name, drug_data)],
           drug_name, drug_name, NoneData)

\* lines 207-209; list.remove raises ValueError when the variant is not in a bucket
PruneBuckets(n2v, ngrams, drug_variant) ==
    [g \in DOMAIN n2v |->
        IF g \in ngrams THEN ListRemove(n2v[g], drug_variant) ELSE n2v[g]]

\* (mutant) the override data of the variant is left behind
remove_drug_synonym_keeping_variant_data(S, drug_variant_arg) ==
    LET drug_variant == Lower(drug_variant_arg)
        ngrams == get_ngrams(drug_variant)
        S1 == [S EXCEPT !.variant_to_ngrams = DictDel(@, drug_variant)]
        S2 == [S1 EXCEPT !.drug_variant_to_canonical = DictDel(@, drug_variant)]
        S4 == [S2 EXCEPT !.ngram_to_variant = PruneBuckets(@, ngrams, drug_variant)]
    IN IF drug_variant \notin DOMAIN S.variant_to_ngrams
       THEN [store |-> S, raised |-> "KeyError"]
       ELSE [store |-> S4, raised |-> ""]

\* (mutant) the deletes are pop(key, None): an absent variant is silently ignored
remove_drug_synonym_ignoring_absent(S, drug_variant_arg) ==
    LET drug_variant == Lower(drug_variant_arg)
        ngrams == get_ngrams(drug_variant)
    IN [store |-> [S EXCEPT
                     !.variant_to_ngrams = DictDel(@, drug_variant),
                     !.drug_variant_to_canonical = DictDel(@, drug_variant),
                     !.drug_variant_to_variant_data = DictDel(@, drug_variant),
                     !.ngram_to_variant = PruneBuckets(@, ngrams, drug_variant)],
        raised |-> ""]

\* remove_drug_synonym: the store it leaves and the exception it raises ("" for none)
remove_drug_synonym(S, drug_variant_arg) ==
    LET drug_variant == Lower(drug_variant_arg)
        ngrams == get_ngrams(drug_variant)
        S1 == [S EXCEPT !.variant_to_ngrams = DictDel(@, drug_variant)]
        S2 == [S1 EXCEPT !.drug_variant_to_canonical = DictDel(@, drug_variant)]
        S3 == IF drug_variant \in DOMAIN S2.drug_variant_to_variant_data
              THEN [S2 EXCEPT !.drug_variant_to_variant_data = DictDel(@, drug_variant)]
              ELSE S2
        S4 == [S3 EXCEPT !.ngram_to_variant = PruneBuckets(@, ngrams, drug_variant)]
    IN IF drug_variant \notin DOMAIN S.variant_to_ngrams
       THEN [store |-> S, raised |-> "KeyError"]
       ELSE IF drug_variant \notin DOMAIN S1.drug_variant_to_canonical
       THEN [store |-> S1, raised |-> "KeyError"]
       ELSE IF \E g \in ngrams : g \in DOMAIN S3.ngram_to_variant
                                 /\ ~InList(S3.ngram_to_variant[g], drug_variant)
       THEN [store |-> S4, raised |-> "ValueError"]
       ELSE [store |-> S4, raised |-> ""]

-----------------------------------------------------------------------------
(* FuzzySet (external library): get() returns the best-scoring members, an exact   *)
(* member with score 1, otherwise the members sharing a 3-gram (else a 2-gram) of  *)
(* the "-"-padded strings, scored 1 - levenshtein/max(len).  Scores are kept as    *)
(* integers out of ScoreOne so that comparisons are exact.                         *)

ScoreOne == 2520

Min3(a, b, c) == IF a <= b /\ a <= c THEN a ELSE IF b <= c THEN b ELSE c

RECURSIVE LevFillRow(_, _, _, _)
LevFillRow(prev, ca, b, acc) ==
    IF Len(acc) = Len(b) + 1 THEN acc
    ELSE LET j == Len(acc)
         IN LevFillRow(prev, ca, b,
                Append(acc, Min3(prev[j + 1] + 1, acc[j] + 1,
                                 prev[j] + (IF ca = b[j] THEN 0 ELSE 1))))

RECURSIVE LevRows(_, _, _, _)
LevRows(a, b, i, prev) ==
    IF i > Len(a) THEN prev[Len(b) + 1]
    ELSE LevRows(a, b, i + 1, LevFillRow(prev, a[i], b, <<prev[1] + 1>>))

Levenshtein(a, b) == LevRows(a, b, 1, [j \in 1..(Len(b) + 1) |-> j - 1])

PaddedGrams(s, n) ==
    LET p == <<"-">> \o s \o <<"-">>
    IN { SubSeq(p, i, i + n - 1) : i \in 1..(Len(p) - n + 1) }

Similarity(a, b) ==
    LET m == IF Len(a) > Len(b) THEN Len(a) ELSE Len(b)
    IN (ScoreOne * (m - Levenshtein(a, b))) \div m

\* the raw tokens a caller may pass
Tokens == { s_Nacl, s_nacx, s_nacy, s_d, s_of }

\* english_words web2 set
EnglishWords == { s_of, s_snacky }

\* the arguments a caller may pass to the add/remove operations
VariantArgs == { s_Nacl, s_nacx, s_nacx_d }
CanonicalArgs == { s_DB1, s_new }
NewDrugArgs == { s_New }
VariantDataArgs == { NoneData, SomeData(EmptyDict), SomeData([is_brand |-> FALSE]) }
DrugDataArgs == { [name |-> "New Drug"] }

\* every string that can be a member of a FuzzySet, and every string that can be asked
FuzzyMembers == DatasetVariants \cup { Lower(v) : v \in VariantArgs \cup NewDrugArgs }
                \cup EnglishWords
\* the surface forms a caller may pass to get_fuzzy_match directly
SurfaceForms == Tokens \cup { t1 \o s_space \o t2 : t1 \in Tokens, t2 \in Tokens }
                \cup { s_nacxy }
FuzzyQueries == { Lower(s) : s \in SurfaceForms }

\* (f @@ EmptyDict makes the table an explicit value, computed once)
SimilarityTable == [p \in FuzzyQueries \X FuzzyMembers |-> Similarity(p[1], p[2])] @@ EmptyDict

ShareTable == [p \in FuzzyQueries \X FuzzyMembers |->
    IF PaddedGrams(p[1], 3) \cap PaddedGrams(p[2], 3) # {} THEN 3
    ELSE IF PaddedGrams(p[1], 2) \cap PaddedGrams(p[2], 2) # {} THEN 2
    ELSE 0] @@ EmptyDict

\* the best-scoring candidate: <<score, word>>
TopCandidate(cands, lvalue) ==
    LET best == CHOOSE w \in cands :
                   \A u \in cands : SimilarityTable[<<lvalue, w>>] >= SimilarityTable[<<lvalue, u>>]
    IN <<SimilarityTable[<<lvalue, best>>], best>>

\* the members sharing a gram of size n or more with lvalue
Sharing(words, lvalue, n) == { w \in words : ShareTable[<<lvalue, w>>] >= n }

FirstNonEmpty(A, B) == IF A # {} THEN A ELSE B

RankCandidates(cands, lvalue) ==
    IF cands = {} THEN <<>> ELSE << TopCandidate(cands, lvalue) >>

\* FuzzySet.get(value): the list of (score, word), best first; <<>> for None.
\* Only results[0] is read by the callers, so only it is kept.
FuzzySetGet(fs, value) ==
    IF Lower(value) \in fs.words THEN << <<ScoreOne, Lower(value)>> >>
    ELSE RankCandidates(FirstNonEmpty(Sharing(fs.words, Lower(value), 3),
                                      Sharing(fs.words, Lower(value), 2)),
                        Lower(value))

dictionary_fuzzyset == [built |-> TRUE, words |-> EnglishWords]

NoFuzzyMatch == [found |-> FALSE, variant |-> <<>>, score |-> 0]

\* (mutant) a vocabulary score equal to the drug score does not reject
AcceptTopAcceptingTie(drug_results, dict_results, fuzzy_threshold) ==
    IF drug_results = <<>> THEN NoFuzzyMatch
    ELSE IF drug_results[1][1] < fuzzy_threshold THEN NoFuzzyMatch
    ELSE IF dict_results # <<>> /\ dict_results[1][1] > drug_results[1][1] THEN NoFuzzyMatch
    ELSE [found |-> TRUE, variant |-> drug_results[1][2], score |-> drug_results[1][1]]

\* lines 240-258 of get_fuzzy_match, given what the two FuzzySets answered
\* (best_score, best_match = drug_results[0]; is_dict_word)
AcceptTop(drug_results, dict_results, fuzzy_threshold) ==
    IF drug_results = <<>> THEN NoFuzzyMatch
    ELSE IF drug_results[1][1] < fuzzy_threshold THEN NoFuzzyMatch
    ELSE IF dict_results # <<>> /\ dict_results[1][1] >= drug_results[1][1] THEN NoFuzzyMatch
    ELSE [found |-> TRUE, variant |-> drug_results[1][2], score |-> drug_results[1][1]]

get_fuzzy_match(S, surface_form, fuzzy_threshold) ==
    IF ~S.drug_names_fuzzyset.built \/ ~dictionary_fuzzyset.built THEN NoFuzzyMatch
    ELSE IF Lower(surface_form) \in EXCLUDE_WORDS THEN NoFuzzyMatch
    ELSE AcceptTop(FuzzySetGet(S.drug_names_fuzzyset, Lower(surface_form)),
                   FuzzySetGet(dictionary_fuzzyset, Lower(surface_form)),
                   fuzzy_threshold)

\* fuzzy_threshold: float = 0.5
DefaultThreshold == ScoreOne \div 2

-----------------------------------------------------------------------------
(* find_drugs: the two passes over the tokens.  token_idx is the 0-based Python     *)
(* index; tokens is a 1-based sequence.  The scan state is the list drug_matches,   *)
(* the set is_exclude and the exception raised, if any.                             *)

DictGet(f, k, default) == IF k \in DOMAIN f THEN f[k] ELSE default

\* lines 298-312 and their three repetitions: one match per canonical id of `match`
\* (get_molecular_weight and the OMOP id are options left at their defaults; they
\* add fields to match_data and touch neither the span nor the list)
RECURSIVE MatchesOf(_, _, _, _, _, _, _, _)
MatchesOf(S, match, variant, similarity, matching_string, is_fuzzy, start, end) ==
    IF match = <<>> THEN <<>>
    ELSE LET m == Head(match)
             merged == DictMerge(DictGet(S.drug_canonical_to_data, m, EmptyDict),
                                 DictGet(S.drug_variant_to_variant_data, variant, EmptyDict))
             scored == DictSet(DictSet(merged, "match_similarity", similarity),
                               "matching_string", matching_string)
             match_data == IF is_fuzzy THEN DictSet(scored, "match_variant", variant)
                           ELSE scored
         IN << <<match_data, start, end>> >>
            \o MatchesOf(S, Tail(match), variant, similarity, matching_string,
                         is_fuzzy, start, end)

\* lines 318-336 / 363-381: what the fuzzy branch does with the answer fm of
\* get_fuzzy_match for a candidate covering `span` tokens
FuzzyMatched(S, scan, fm, matching_string, token_idx, span) ==
    IF ~fm.found THEN scan
    ELSE IF fm.variant \notin DOMAIN S.drug_variant_to_canonical
    THEN [scan EXCEPT !.raised = "KeyError"]
    ELSE [scan EXCEPT
            !.drug_matches = @ \o MatchesOf(S, S.drug_variant_to_canonical[fm.variant],
                                            fm.variant, fm.score, matching_string, TRUE,
                                            token_idx, token_idx + span),
            !.is_exclude = IF S.drug_variant_to_canonical[fm.variant] # <<>>
                           THEN @ \cup (token_idx..(token_idx + span - 1)) ELSE @]

\* lines 317 / 362: the fuzzy branch
FuzzyBranch(S, scan, cand_norm, matching_string, token_idx, span) ==
    FuzzyMatched(S, scan, get_fuzzy_match(S, cand_norm, DefaultThreshold),
                 matching_string, token_idx, span)

\* lines 291-336: the body of the first loop for one token_idx
BigramStep(S, tokens, is_fuzzy_match, scan, token_idx) ==
    LET token == tokens[token_idx + 1]
        next_token == tokens[token_idx + 2]
        cand == token \o s_space \o next_token
        cand_norm == Lower(cand)
        match == DictGet(S.drug_variant_to_canonical, cand_norm, <<>>)
    IN IF match # <<>>
       THEN [scan EXCEPT
               !.drug_matches = @ \o MatchesOf(S, match, cand_norm, ScoreOne, cand, FALSE,
                                               token_idx, token_idx + 2),
               !.is_exclude = @ \cup {token_idx, token_idx + 1}]
       ELSE IF is_fuzzy_match
               /\ Lower(token) \notin stopwords /\ Lower(next_token) \notin stopwords
       THEN FuzzyBranch(S, scan, cand_norm, cand, token_idx, 2)
       ELSE scan

\* lines 338-381: the body of the second loop for one token_idx
UnigramStep(S, tokens, is_fuzzy_match, scan, token_idx) ==
    LET token == tokens[token_idx + 1]
        cand_norm == Lower(token)
        match == DictGet(S.drug_variant_to_canonical, cand_norm, <<>>)
    IN IF token_idx \in scan.is_exclude THEN scan
       ELSE IF match # <<>>
       THEN [scan EXCEPT
               !.drug_matches = @ \o MatchesOf(S, match, cand_norm, ScoreOne, token, FALSE,
                                               token_idx, token_idx + 1),
               !.is_exclude = @ \cup {token_idx}]
       ELSE IF is_fuzzy_match /\ cand_norm \notin stopwords /\ Len(cand_norm) > 3
       THEN FuzzyBranch(S, scan, cand_norm, token, token_idx, 1)
       ELSE scan

RECURSIVE BigramPass(_, _, _, _, _)
BigramPass(S, tokens, is_fuzzy_match, scan, token_idx) ==
    IF token_idx >= Len(tokens) - 1 \/ scan.raised # "" THEN scan
    ELSE BigramPass(S, tokens, is_fuzzy_match,
                    BigramStep(S, tokens, is_fuzzy_match, scan, token_idx), token_idx + 1)

RECURSIVE UnigramPass(_, _, _, _, _)
UnigramPass(S, tokens, is_fuzzy_match, scan, token_idx) ==
    IF token_idx >= Len(tokens) \/ scan.raised # "" THEN scan
    ELSE UnigramPass(S, tokens, is_fuzzy_match,
                     UnigramStep(S, tokens, is_fuzzy_match, scan, token_idx), token_idx + 1)

\* lines 288-381 of find_drugs: the list built and the exception raised ("" for none)
ScanTokens(S, tokens, is_fuzzy_match) ==
    LET scan0 == [drug_matches |-> <<>>, is_exclude |-> {}, raised |-> ""]
        scan1 == BigramPass(S, tokens, is_fuzzy_match, scan0, 0)
    IN UnigramPass(S, tokens, is_fuzzy_match, scan1, 0)

-----------------------------------------------------------------------------
(* find_drugs with is_include_structure=True, called from several threads.  The    *)
(* store is only read.  A thread can be pre-empted between any two steps below.    *)

NumCallers == 2
Callers == 1..NumCallers

s_downloading == <<"d","o","w","n","l","o","a","d","i","n","g">>
s_DRUGBANK_ID == <<"D","R","U","G","B","A","N","K","_","I","D">>

\* the lines of "open structures.sdf": two records
structures_file == <<
    <<"m","o","l","1">>, <<">","<">> \o s_DRUGBANK_ID \o <<">">>, id_DB01, <<"$","$","$","$">>,
    <<"m","o","l","2">>, <<">","<">> \o s_DRUGBANK_ID \o <<">">>, id_DB02, <<"$","$","$","$">> >>

\* sub in l
Contains(l, sub) == \E i \in 1..(Len(l) - Len(sub) + 1) : SubSeq(l, i, i + Len(sub) - 1) = sub

\* l.startswith(prefix)
StartsWith(l, prefix) == Len(l) >= Len(prefix) /\ SubSeq(l, 1, Len(prefix)) = prefix

\* lines 278-286: the loop body for one line l.  current_structure is kept as the
\* sequence of the lines concatenated into it.
ReadStructureLine(lookup, is_in_structure, current_structure, l) ==
    LET appended == IF is_in_structure /\ ~Contains(l, s_DRUGBANK_ID)
                    THEN Append(current_structure, l) ELSE current_structure
        is_id == StartsWith(l, <<"D","B">>)
        in1 == IF is_id THEN FALSE ELSE is_in_structure
    IN [ lookup |-> IF is_id THEN DictSet(lookup, l, appended) ELSE lookup,
         current_structure |-> IF is_id THEN <<>> ELSE appended,
         is_in_structure |-> IF StartsWith(l, <<"$","$","$","$">>) THEN TRUE ELSE in1 ]

\* lines 275-286 run to the end on `lookup`
RECURSIVE ReadStructures(_, _, _, _)
ReadStructures(lookup, is_in_structure, current_structure, lines) ==
    IF lines = <<>> THEN lookup
    ELSE LET r == ReadStructureLine(lookup, is_in_structure, current_structure, Head(lines))
         IN ReadStructures(r.lookup, r.is_in_structure, r.current_structure, Tail(lines))

\* lines 385-389: the loop body for one match
AttachStructure(match, lookup) ==
    LET match_data == match[1]
    IN IF "drugbank_id" \in DOMAIN match_data /\ match_data["drugbank_id"] \in DOMAIN lookup
       THEN <<DictSet(match_data, "structure_mol", lookup[match_data["drugbank_id"]]),
              match[2], match[3]>>
       ELSE match

\* what a call returns when no other call runs: the lookup is built in full by the
\* first call that asks for structures, and read afterwards
LookupBuilt == ReadStructures(s_downloading :> <<>>, TRUE, <<>>, structures_file)

FindDrugsAlone(tokens, is_fuzzy_match) ==
    LET scan == ScanTokens(Store, tokens, is_fuzzy_match)
    IN [i \in 1..Len(scan.drug_matches) |-> AttachStructure(scan.drug_matches[i], LookupBuilt)]

CallerTokenLists == { <<s_nacx, s_d>>, <<s_d, s_nacx, s_of>> }

Idle == [pc |-> "idle", tokens |-> <<>>, line |-> 0, is_in_structure |-> FALSE,
         current_structure |-> <<>>, drug_matches |-> <<>>, k |-> 0]

\* find_drugs(tokens, is_include_structure=True) is entered
Call(t) ==
    /\ caller[t].pc = "idle"
    /\ \E tokens \in CallerTokenLists :
         caller' = [caller EXCEPT ![t] = [@ EXCEPT !.pc = "check", !.tokens = tokens]]
    /\ UNCHANGED <<dbid_to_mol_lookup, storeVars, histVars, callVars, cacheVars>>

\* line 269: if is_include_structure and len(dbid_to_mol_lookup) == 0
CheckLookup(t) ==
    /\ caller[t].pc = "check"
    /\ caller' = [caller EXCEPT ![t].pc =
                     IF Cardinality(DOMAIN dbid_to_mol_lookup) = 0 THEN "mark" ELSE "scan"]
    /\ UNCHANGED <<dbid_to_mol_lookup, storeVars, histVars, callVars, cacheVars>>

\* lines 270-277: mark the lookup and open the file (the file is present)
MarkDownloading(t) ==
    /\ caller[t].pc = "mark"
    /\ dbid_to_mol_lookup' = DictSet(dbid_to_mol_lookup, s_downloading, <<>>)
    /\ caller' = [caller EXCEPT ![t] = [@ EXCEPT !.pc = "read", !.line = 1,
                     !.is_in_structure = TRUE, !.current_structure = <<>>]]
    /\ UNCHANGED <<storeVars, histVars, callVars, cacheVars>>

\* lines 278-286: one line of the file
ReadLine(t) ==
    /\ caller[t].pc = "read"
    /\ IF caller[t].line > Len(structures_file)
       THEN /\ caller' = [caller EXCEPT ![t].pc = "scan"]
            /\ UNCHANGED dbid_to_mol_lookup
       ELSE LET r == ReadStructureLine(dbid_to_mol_lookup, caller[t].is_in_structure,
                                       caller[t].current_structure,
                                       structures_file[caller[t].line])
            IN /\ dbid_to_mol_lookup' = r.lookup
               /\ caller' = [caller EXCEPT ![t] = [@ EXCEPT !.line = @ + 1,
                                !.is_in_structure = r.is_in_structure,
                                !.current_structure = r.current_structure]]
    /\ UNCHANGED <<storeVars, histVars, callVars, cacheVars>>

\* lines 288-381: the two passes
Scan(t) ==
    /\ caller[t].pc = "scan"
    /\ caller' = [caller EXCEPT ![t] = [@ EXCEPT !.pc = "attach", !.k = 1,
                     !.drug_matches = ScanTokens(Store, caller[t].tokens, FALSE).drug_matches]]
    /\ UNCHANGED <<dbid_to_mol_lookup, storeVars, histVars, callVars, cacheVars>>

\* lines 383-391: one match of the attachment loop, then return
Attach(t) ==
    /\ caller[t].pc = "attach"
    /\ IF caller[t].k > Len(caller[t].drug_matches)
       THEN caller' = [caller EXCEPT ![t].pc = "done"]
       ELSE caller' = [caller EXCEPT ![t] = [@ EXCEPT !.k = @ + 1,
                          !.drug_matches[caller[t].k] = AttachStructure(@, dbid_to_mol_lookup)]]
    /\ UNCHANGED <<dbid_to_mol_lookup, storeVars, histVars, callVars, cacheVars>>

-----------------------------------------------------------------------------
(* The OMOP lookup cache and its file *)

\* the names find_drugs may look up, and what omop_api.get_omop_id_from_drug may answer
CacheNameArgs == { s_Nacl, s_nacx }
OmopIds == { "1503297", "None" }

\* pickle: the stream pkl.dump writes for a dict, as a sequence of opcodes
PickleOp(op, key, value) == [op |-> op, key |-> key, value |-> value]
CacheNameOrder == << s_nacl, s_nacx >>

RECURSIVE PickleItems(_, _)
PickleItems(cache, names) ==
    IF names = <<>> THEN <<>>
    ELSE (IF Head(names) \in DOMAIN cache
          THEN << PickleOp("SETITEM", Head(names), cache[Head(names)]) >> ELSE <<>>)
         \o PickleItems(cache, Tail(names))

PklDump(cache) ==
    << PickleOp("PROTO", <<>>, "") >> \o PickleItems(cache, CacheNameOrder)
    \o << PickleOp("STOP", <<>>, "") >>

\* pkl.load succeeds only on a complete stream
PklLoadable(bytes) ==
    /\ Len(bytes) >= 2
    /\ bytes[1].op = "PROTO"
    /\ bytes[Len(bytes)].op = "STOP"

PklLoad(bytes) ==
    LET items == { i \in 2..(Len(bytes) - 1) : bytes[i].op = "SETITEM" }
    IN [name \in { bytes[i].key : i \in items } |->
           bytes[CHOOSE i \in items : bytes[i].key = name].value]

NoFile == [exists |-> FALSE, bytes |-> <<>>]

\* cached_get_omop_id(drug_name), lines 93-98: on a miss the cache is extended and
\* CACHE_FILE is opened "wb", which truncates it
CachedGetOmopId ==
    /\ engine = "up"
    /\ \E drug_name \in CacheNameArgs, omop_id \in OmopIds :
         LET name == Lower(drug_name)
         IN IF name \in DOMAIN omop_cache
            THEN UNCHANGED cacheVars
            ELSE /\ omop_cache' = DictSet(omop_cache, name, omop_id)
                 /\ cache_file' = [exists |-> TRUE, bytes |-> <<>>]
                 /\ pending' = PklDump(omop_cache')
                 /\ file_before' = cache_file
                 /\ file_after' = [exists |-> TRUE, bytes |-> PklDump(omop_cache')]
                 /\ engine' = "writing"
    /\ UNCHANGED <<storeVars, histVars, callVars, concVars>>

\* line 99: pkl.dump writes the stream into the open file
WriteChunk ==
    /\ engine = "writing" /\ pending # <<>>
    /\ cache_file' = [cache_file EXCEPT !.bytes = Append(@, Head(pending))]
    /\ pending' = Tail(pending)
    /\ UNCHANGED <<omop_cache, engine, file_before, file_after>>
    /\ UNCHANGED <<storeVars, histVars, callVars, concVars>>

\* the with block ends; cached_get_omop_id returns
CloseFile ==
    /\ engine = "writing" /\ pending = <<>>
    /\ engine' = "up"
    /\ UNCHANGED <<omop_cache, cache_file, pending, file_before, file_after>>
    /\ UNCHANGED <<storeVars, histVars, callVars, concVars>>

\* the process stops; what is on disk stays
Crash ==
    /\ engine \in {"up", "writing"}
    /\ engine' = "down"
    /\ omop_cache' = EmptyDict
    /\ pending' = <<>>
    /\ UNCHANGED <<cache_file, file_before, file_after>>
    /\ UNCHANGED <<storeVars, histVars, callVars, concVars>>

\* lines 85-89 at the next import: pkl.load raises on a malformed file and the
\* import is aborted
Start ==
    /\ engine = "down"
    /\ IF ~cache_file.exists
       THEN omop_cache' = EmptyDict /\ engine' = "up"
       ELSE IF PklLoadable(cache_file.bytes)
       THEN omop_cache' = PklLoad(cache_file.bytes) /\ engine' = "up"
       ELSE omop_cache' = EmptyDict /\ engine' = "aborted"
    /\ UNCHANGED <<cache_file, pending, file_before, file_after>>
    /\ UNCHANGED <<storeVars, histVars, callVars, concVars>>

-----------------------------------------------------------------------------
(* The state machine of the dictionary store and its callers *)

\* the three maps of the dictionary proper
Maps(S) == <<S.drug_variant_to_canonical, S.drug_canonical_to_data,
             S.drug_variant_to_variant_data>>

\* preAdd: the maps before the last add_custom_drug_synonym, and whether its variant
\* was then already a key of the variant maps
NoSnapshot == [taken |-> FALSE, maps |-> <<EmptyDict, EmptyDict, EmptyDict>>,
               registered |-> FALSE]
NotFound == [called |-> FALSE, tokens |-> <<>>, is_fuzzy_match |-> FALSE,
             drug_matches |-> <<>>, raised |-> ""]
NotAsked == [called |-> FALSE, surface_form |-> <<>>, fuzzy_threshold |-> 0,
             result |-> NoFuzzyMatch]

SetStore(S) ==
    /\ d_canonical_to_data' = S.d_canonical_to_data
    /\ drug_variant_to_canonical' = S.drug_variant_to_canonical
    /\ drug_canonical_to_data' = S.drug_canonical_to_data
    /\ drug_variant_to_variant_data' = S.drug_variant_to_variant_data
    /\ ngram_to_variant' = S.ngram_to_variant
    /\ variant_to_ngrams' = S.variant_to_ngrams
    /\ drug_names_fuzzyset' = S.drug_names_fuzzyset

\* the module globals before line 393 runs
Unloaded == [
    d_canonical_to_data          |-> d_canonical_to_data_pickled,
    drug_variant_to_canonical    |-> EmptyDict,
    drug_canonical_to_data       |-> EmptyDict,
    drug_variant_to_variant_data |-> EmptyDict,
    ngram_to_variant             |-> EmptyDict,
    variant_to_ngrams            |-> EmptyDict,
    drug_names_fuzzyset          |-> [built |-> FALSE, words |-> {}] ]

\* the state once the module is imported: line 393 has called reset_drugs_data()
FirstLoad == reset_drugs_data(Unloaded)

Init ==
    /\ d_canonical_to_data = FirstLoad.d_canonical_to_data
    /\ drug_variant_to_canonical = FirstLoad.drug_variant_to_canonical
    /\ drug_canonical_to_data = FirstLoad.drug_canonical_to_data
    /\ drug_variant_to_variant_data = FirstLoad.drug_variant_to_variant_data
    /\ ngram_to_variant = FirstLoad.ngram_to_variant
    /\ variant_to_ngrams = FirstLoad.variant_to_ngrams
    /\ drug_names_fuzzyset = FirstLoad.drug_names_fuzzyset
    /\ lastOp = [op |-> "import", v |-> <<>>, raised |-> "", registered |-> FALSE]
    /\ preAdd = NoSnapshot
    /\ nOps = 0
    /\ found = NotFound
    /\ fuzzy = NotAsked
    /\ dbid_to_mol_lookup = EmptyDict
    /\ caller = [t \in Callers |-> Idle]
    /\ omop_cache = EmptyDict
    /\ cache_file = NoFile
    /\ engine = "up"
    /\ pending = <<>>
    /\ file_before = NoFile
    /\ file_after = NoFile

Reset ==
    /\ nOps < MaxOps /\ ~found.called /\ ~fuzzy.called
    /\ SetStore(reset_drugs_data(Store))
    /\ lastOp' = [op |-> "reset", v |-> <<>>, raised |-> "", registered |-> FALSE]
    /\ preAdd' = NoSnapshot
    /\ nOps' = nOps + 1
    /\ UNCHANGED <<callVars, concVars, cacheVars>>

AddSynonym ==
    /\ nOps < MaxOps /\ ~found.called /\ ~fuzzy.called
    /\ \E v \in VariantArgs, c \in CanonicalArgs, data \in VariantDataArgs :
         /\ SetStore(add_custom_drug_synonym(Store, v, c, data))
         /\ lastOp' = [op |-> "add_synonym", v |-> Lower(v), raised |-> "",
                       registered |-> Lower(v) \in DOMAIN drug_variant_to_canonical
                                      \/ Lower(v) \in DOMAIN drug_variant_to_variant_data]
    /\ preAdd' = [taken |-> TRUE, maps |-> Maps(Store), registered |-> lastOp'.registered]
    /\ nOps' = nOps + 1
    /\ UNCHANGED <<callVars, concVars, cacheVars>>

AddNewDrug ==
    /\ nOps < MaxOps /\ ~found.called /\ ~fuzzy.called
    /\ \E name \in NewDrugArgs, data \in DrugDataArgs :
         /\ SetStore(add_custom_new_drug(Store, name, data))
         /\ lastOp' = [op |-> "add_new_drug", v |-> Lower(name), raised |-> "",
                       registered |-> Lower(name) \in DOMAIN drug_variant_to_canonical]
    /\ preAdd' = NoSnapshot
    /\ nOps' = nOps + 1
    /\ UNCHANGED <<callVars, concVars, cacheVars>>

RemoveArgs == VariantArgs \cup NewDrugArgs \cup { s_d_nacx }

\* a remove directly after add_custom_drug_synonym of the same variant keeps the
\* snapshot taken before that add
Remove ==
    /\ nOps < MaxOps /\ ~found.called /\ ~fuzzy.called
    /\ \E v \in RemoveArgs :
         LET r == remove_drug_synonym(Store, v)
         IN /\ SetStore(r.store)
            /\ lastOp' = [op |-> "remove", v |-> Lower(v), raised |-> r.raised,
                          registered |-> Lower(v) \in DOMAIN drug_variant_to_canonical]
            /\ preAdd' = IF lastOp.op = "add_synonym" /\ lastOp.v = Lower(v)
                         THEN preAdd ELSE NoSnapshot
    /\ nOps' = nOps + 1
    /\ UNCHANGED <<callVars, concVars, cacheVars>>

RECURSIVE SeqsUpTo(_, _)
SeqsUpTo(S, n) ==
    IF n = 0 THEN { <<>> }
    ELSE LET shorter == SeqsUpTo(S, n - 1)
         IN shorter \cup { Append(s, x) : s \in shorter, x \in S }

TokenLists == SeqsUpTo(Tokens, MaxTokens)

\* find_drugs(tokens, is_fuzzy_match) with the other options at their defaults.
\* `found` records the one call a behaviour observes, made after at most
\* MaxOpsBeforeFind operations on the store.
FindDrugs ==
    /\ ~found.called
    /\ nOps <= MaxOpsBeforeFind
    /\ \E tokens \in TokenLists, is_fuzzy_match \in BOOLEAN :
         LET scan == ScanTokens(Store, tokens, is_fuzzy_match)
         IN found' = [called |-> TRUE, tokens |-> tokens, is_fuzzy_match |-> is_fuzzy_match,
                      drug_matches |-> IF scan.raised = "" THEN scan.drug_matches ELSE <<>>,
                      raised |-> scan.raised]
    /\ UNCHANGED <<storeVars, histVars, fuzzy, concVars, cacheVars>>

Thresholds == { DefaultThreshold, (3 * ScoreOne) \div 4 }

GetFuzzyMatch ==
    /\ ~fuzzy.called
    /\ nOps <= MaxOpsBeforeFuzzy
    /\ \E surface_form \in SurfaceForms, fuzzy_threshold \in Thresholds :
         fuzzy' = [called |-> TRUE, surface_form |-> surface_form,
                   fuzzy_threshold |-> fuzzy_threshold,
                   result |-> get_fuzzy_match(Store, surface_form, fuzzy_threshold)]
    /\ UNCHANGED <<storeVars, histVars, found, concVars, cacheVars>>

Next == Reset \/ AddSynonym \/ AddNewDrug \/ Remove

Spec == Init /\ [][Next]_vars

\* the same store, with get_fuzzy_match called after at most MaxOpsBeforeFuzzy mutations
NextFuzzy == Reset \/ AddSynonym \/ AddNewDrug \/ Remove \/ GetFuzzyMatch

SpecFuzzy == Init /\ [][NextFuzzy]_vars

\* concurrent find_drugs calls over the store as loaded
NextConcurrent ==
    \E t \in Callers : Call(t) \/ CheckLookup(t) \/ MarkDownloading(t) \/ ReadLine(t)
                          \/ Scan(t) \/ Attach(t)

SpecConcurrent == Init /\ [][NextConcurrent]_vars

\* the cache file across calls, crashes and restarts
NextCache == CachedGetOmopId \/ WriteChunk \/ CloseFile \/ Crash \/ Start

SpecCache == Init /\ [][NextCache]_vars

\* the same store, with find_drugs called after at most MaxOpsBeforeFind mutations
NextFind == Reset \/ AddSynonym \/ AddNewDrug \/ Remove \/ FindDrugs

SpecFind == Init /\ [][NextFind]_vars

-----------------------------------------------------------------------------
(* Properties of find_drugs (specification SpecFind) *)

SpanOf(m) == <<m[2], m[3]>>
MatchingString(m) == m[1]["matching_string"]

\* C1: any two matches returned by one find_drugs call have the identical span or
\* cover disjoint token-index ranges.
C1_SpansIdenticalOrDisjoint ==
    found.called =>
        \A i, j \in 1..Len(found.drug_matches) :
            LET a == found.drug_matches[i]
                b == found.drug_matches[j]
            IN SpanOf(a) = SpanOf(b) \/ a[3] <= b[2] \/ b[3] <= a[2]

\* the bigram at token_idx is matched: exactly, or fuzzily when fuzzy is enabled and
\* the fuzzy branch is taken (neither token is a stopword)
BigramMatched(tokens, is_fuzzy_match, token_idx) ==
    LET token == tokens[token_idx + 1]
        next_token == tokens[token_idx + 2]
        cand_norm == Lower(token \o s_space \o next_token)
    IN \/ /\ cand_norm \in DOMAIN drug_variant_to_canonical
          /\ drug_variant_to_canonical[cand_norm] # <<>>
       \/ /\ is_fuzzy_match
          /\ Lower(token) \notin stopwords /\ Lower(next_token) \notin stopwords
          /\ get_fuzzy_match(Store, cand_norm, DefaultThreshold).found

HasSpan(matches, start, end) == \E k \in 1..Len(matches) : SpanOf(matches[k]) = <<start, end>>

\* C2: whenever the bigram at i is matched, find_drugs returns a match with span
\* [i, i+2) and no match with span [i, i+1) or [i+1, i+2).
C2_BigramBeforeUnigram ==
    found.called =>
        \A i \in 0..(Len(found.tokens) - 2) :
            BigramMatched(found.tokens, found.is_fuzzy_match, i) =>
                /\ HasSpan(found.drug_matches, i, i + 2)
                /\ ~HasSpan(found.drug_matches, i, i + 1)
                /\ ~HasSpan(found.drug_matches, i + 1, i + 2)

\* C3: find_drugs returns no match whose matched token or bigram, lower-cased, is in
\* EXCLUDE_WORDS.
C3_NoExcludedWordMatched ==
    found.called =>
        \A k \in 1..Len(found.drug_matches) :
            Lower(MatchingString(found.drug_matches[k])) \notin EXCLUDE_WORDS

\* C11: every variant the drug-variant fuzzy index holds is a key of the
\* variant->canonical map, and a find_drugs call never fails with an exception.
C11_FuzzyIndexWithinVariants ==
    /\ drug_names_fuzzyset.words \subseteq DOMAIN drug_variant_to_canonical
    /\ found.called => found.raised = ""

-----------------------------------------------------------------------------
(* Properties of get_fuzzy_match (specification SpecFuzzy) *)

AskedDrugTop == FuzzySetGet(drug_names_fuzzyset, Lower(fuzzy.surface_form))
AskedVocabularyTop == FuzzySetGet(dictionary_fuzzyset, Lower(fuzzy.surface_form))

\* the acceptance rule: a top drug candidate whose score reaches the threshold and
\* which the vocabulary index scores strictly lower (or not at all)
AskedAccepted ==
    /\ AskedDrugTop # <<>>
    /\ AskedDrugTop[1][1] >= fuzzy.fuzzy_threshold
    /\ AskedVocabularyTop = <<>> \/ AskedVocabularyTop[1][1] < AskedDrugTop[1][1]

AskedTopResult ==
    [found |-> TRUE, variant |-> AskedDrugTop[1][2], score |-> AskedDrugTop[1][1]]

\* C4 (as claimed): get_fuzzy_match returns the top drug candidate and its score if
\* and only if the score reaches the threshold and the vocabulary score is strictly
\* lower (or absent); otherwise it returns (None, None).
C4_AcceptedIffRule ==
    fuzzy.called =>
        fuzzy.result = IF AskedAccepted THEN AskedTopResult ELSE NoFuzzyMatch

\* C4 (amended): the same equivalence for surface forms whose lower-cased form is not
\* in EXCLUDE_WORDS; for a surface form in EXCLUDE_WORDS the result is (None, None).
C4_AcceptedIffRuleUnlessExcluded ==
    fuzzy.called =>
        fuzzy.result = IF AskedAccepted /\ Lower(fuzzy.surface_form) \notin EXCLUDE_WORDS
                       THEN AskedTopResult ELSE NoFuzzyMatch

\* an exact tie between the vocabulary score and a drug score that reaches the
\* threshold, rejected
C4_TieRejected ==
    /\ fuzzy.called
    /\ Lower(fuzzy.surface_form) \notin EXCLUDE_WORDS
    /\ AskedDrugTop # <<>> /\ AskedVocabularyTop # <<>>
    /\ AskedDrugTop[1][1] >= fuzzy.fuzzy_threshold
    /\ AskedVocabularyTop[1][1] = AskedDrugTop[1][1]
    /\ ~fuzzy.result.found

-----------------------------------------------------------------------------
(* Properties of the store operations (specification Spec) *)

\* C5 (as claimed): add_custom_drug_synonym(v, c, data) directly followed by
\* remove_drug_synonym(v) leaves the three maps as they were before the add.
C5_AddRemoveRestores ==
    (lastOp.op = "remove" /\ preAdd.taken) =>
        (lastOp.raised = "" /\ Maps(Store) = preAdd.maps)

\* C5 (amended): the same, for a variant v that was a key of neither the
\* variant->canonical map nor the variant->override map before the add.
C5_AddRemoveRestoresFreshVariant ==
    (lastOp.op = "remove" /\ preAdd.taken /\ ~preAdd.registered) =>
        (lastOp.raised = "" /\ Maps(Store) = preAdd.maps)

\* a fresh variant was added and directly removed again
C5_FreshVariantAddedAndRemoved ==
    /\ lastOp.op = "remove" /\ preAdd.taken /\ ~preAdd.registered
    /\ lastOp.raised = ""
    /\ lastOp.v \notin DOMAIN drug_variant_to_canonical

SynonymsOf(C) ==
    IF "synonyms" \in DOMAIN drug_canonical_to_data[C]
    THEN drug_canonical_to_data[C].synonyms ELSE <<>>

\* C6: for every canonical id C of the canonical->data map, C's synonyms list holds
\* exactly the variants whose canonical-id list contains C, each once.
C6_SynonymsExact ==
    \A C \in DOMAIN drug_canonical_to_data :
        LET syn == SynonymsOf(C)
        IN /\ \A V \in DOMAIN drug_variant_to_canonical :
                InList(drug_variant_to_canonical[V], C) => InList(syn, V)
           /\ \A i \in 1..Len(syn) :
                /\ syn[i] \in DOMAIN drug_variant_to_canonical
                /\ InList(drug_variant_to_canonical[syn[i]], C)
           /\ \A i, j \in 1..Len(syn) : syn[i] = syn[j] => i = j

\* the store without the dataset object d
Globals(S) == <<S.drug_variant_to_canonical, S.drug_canonical_to_data,
                S.drug_variant_to_variant_data, S.ngram_to_variant,
                S.variant_to_ngrams, S.drug_names_fuzzyset>>

\* C7: the state reset_drugs_data leaves equals the state of the first load.
C7_ResetRestoresFirstLoad ==
    lastOp.op = "reset" => Globals(Store) = Globals(FirstLoad)

\* C8: remove_drug_synonym of a variant that is not registered raises, and leaves
\* the variant maps and the n-gram index as they were.
C8_RemoveAbsentRaisesUnchanged ==
    [][ (nOps' = nOps + 1 /\ lastOp'.op = "remove" /\ ~lastOp'.registered) =>
            /\ lastOp'.raised # ""
            /\ drug_variant_to_canonical' = drug_variant_to_canonical
            /\ drug_variant_to_variant_data' = drug_variant_to_variant_data
            /\ variant_to_ngrams' = variant_to_ngrams
            /\ ngram_to_variant' = ngram_to_variant ]_vars

\* an unregistered variant whose n-gram buckets still list it was asked to be removed
C8_AbsentVariantRemoveRaised ==
    /\ lastOp.op = "remove" /\ ~lastOp.registered /\ lastOp.raised = "KeyError"
    /\ \E g \in DOMAIN ngram_to_variant : InList(ngram_to_variant[g], lastOp.v)

-----------------------------------------------------------------------------
(* Properties of concurrent find_drugs calls (specification SpecConcurrent) *)

\* C9: every call that has returned has returned the match list it returns when run
\* alone, structure_mol fields included.
C9_ConcurrentCallsReturnAsAlone ==
    \A t \in Callers :
        caller[t].pc = "done" => caller[t].drug_matches = FindDrugsAlone(caller[t].tokens, FALSE)

-----------------------------------------------------------------------------
(* Properties of the cache file (specification SpecCache) *)

\* C10: when the process has stopped, CACHE_FILE holds the complete previous or the
\* complete new mapping, and no start is aborted by the file it finds.
C10_CacheFileCrashSafe ==
    /\ engine = "down" => cache_file \in {file_before, file_after}
    /\ engine # "aborted"

====
